---- MODULE Spec2Model ----
(***************************************************************************)
(* TokGrabber download core: fetch_video_info (metadata fetch with retry), *)
(* DownloadWorker.run (resumable streamed transfer) and the batch loop of  *)
(* MainWindow.start_batch_download with its completion callbacks.          *)
(*                                                                         *)
(* The specifications share the variables:                                  *)
(*   SpecFetch     one caller of fetch_video_info, attempt by attempt       *)
(*   SpecTransfer  one DownloadWorker run against any destination state,    *)
(*                 with the pause button (SpecTransferFair: scheduled)      *)
(*   Spec          one batch job: the GUI thread's loop, the worker         *)
(*                 threads it starts, and the GUI thread's event queue      *)
(*   SpecApp       one batch job or one single download (download_media)    *)
(*   SpecRebatch   batch jobs started one after another                     *)
(*   SpecSession   single downloads started one after another               *)
(*   SpecEdit      one single download with URL edits and "Fetch Info"      *)
(***************************************************************************)
EXTENDS Integers, Sequences, FiniteSets, TLC

VARIABLES
    fetch,        \* locals of the running fetch_video_info call (+ history)
    branch,       \* branch the caller of fetch_video_info took last
    worker,       \* DownloadWorker objects: id -> fields and locals of run()
    files,        \* file system: path -> content (a sequence of bytes) or Absent
    queue,        \* signals posted to the GUI thread, in emission order
    delivered,    \* per worker: the progress values the GUI slot has received
    gui           \* MainWindow batch fields and the position of the GUI thread

vars == <<fetch, branch, worker, files, queue, delivered, gui>>

----------------------------------------------------------------------------
(* Values of the metadata API.                                              *)

\* data.get("title", ...): missing, not a string, or a string (its characters)
TitleAbsent == [kind |-> "absent", chars |-> << >>]
TitleNull == [kind |-> "null", chars |-> << >>]
TitleStr(chars) == [kind |-> "str", chars |-> chars]
Titles == {TitleAbsent, TitleNull, TitleStr(<<"a">>), TitleStr(<<"a", "?">>)}

\* Length, in bytes, of the media resource every variant URL of a batch names.
BatchLen == 2

\* data.get(key): the key is missing, the URL is empty, or a media URL. A media
\* URL is identified by the length of the resource the media server keeps
\* for it.
AbsentUrl == [kind |-> "absent", len |-> 0]
EmptyUrl == [kind |-> "empty", len |-> 0]
MediaUrl(n) == [kind |-> "url", len |-> n]
VariantUrls == {AbsentUrl, EmptyUrl, MediaUrl(BatchLen)}

\* info["data"]: a mapping with a title and the URL under the selected key,
\* or something that is not a mapping.
DataValues ==
    [isMap : {TRUE}, title : Titles, url : VariantUrls]
      \cup {[isMap |-> FALSE, title |-> TitleAbsent, url |-> AbsentUrl]}

NoData == [isMap |-> FALSE, title |-> TitleAbsent, url |-> AbsentUrl]

\* What response.json() can return.
Payloads ==
    {[isDict |-> FALSE, hasCode |-> FALSE, code |-> 0, hasData |-> FALSE, data |-> NoData]}
      \cup [isDict : {TRUE}, hasCode : {FALSE}, code : {0}, hasData : {TRUE},
            data : {[isMap |-> TRUE, title |-> TitleStr(<<"a">>), url |-> MediaUrl(BatchLen)]}]
      \cup [isDict : {TRUE}, hasCode : {TRUE}, code : {-1}, hasData : {TRUE},
            data : {[isMap |-> TRUE, title |-> TitleStr(<<"a">>), url |-> MediaUrl(BatchLen)]}]
      \cup [isDict : {TRUE}, hasCode : {TRUE}, code : {0}, hasData : {FALSE}, data : {NoData}]
      \cup [isDict : {TRUE}, hasCode : {TRUE}, code : {0}, hasData : {TRUE}, data : DataValues]

NoPayload ==
    [isDict |-> FALSE, hasCode |-> FALSE, code |-> 0, hasData |-> FALSE, data |-> NoData]

\* The ways one attempt can raise: requests.get (connection, timeout),
\* raise_for_status (HTTP status), response.json() (body is not JSON).
FailureKinds == {"timeout", "http_error", "bad_json"}

\* What the network answers to one metadata request.
Responses ==
    [kind : FailureKinds, payload : {NoPayload}]
      \cup [kind : {"json"}, payload : Payloads]

----------------------------------------------------------------------------
(* fetch_video_info                                                         *)

\* range(3)
MaxAttempts == 3

Pow2(n) == 2 ^ n

\* (mutant) a payload that fails validation is treated as a failed attempt
RaisesOnInvalid(resp) ==
    \/ resp.kind # "json"
    \/ ~(resp.payload.isDict /\ resp.payload.hasCode /\ resp.payload.code = 0
         /\ resp.payload.hasData)

\* `except Exception' is entered: get, raise_for_status or json() raised
ResponseRaises(resp) == resp.kind # "json"

\* (mutant) the error is raised one attempt early
BackoffOnce(attempt) == attempt < 1

\* `if attempt < 2: time.sleep(...) else: raise e'
ShouldBackoff(attempt) == attempt < 2

NoError == [attempt |-> -1, kind |-> "none"]

FetchIdle ==
    [pc |-> "idle", attempt |-> 0, e |-> NoError, info |-> NoPayload,
     requests |-> 0, slept |-> << >>, log |-> << >>]

\* One pass through the body of the for loop up to the sleep.
FetchAttemptStep(f, resp) ==
    LET g == [f EXCEPT !.requests = @ + 1, !.log = Append(@, resp)]
    IN  IF ~ResponseRaises(resp)
        THEN [g EXCEPT !.pc = "returned", !.info = resp.payload]
        ELSE LET h == [g EXCEPT !.e = [attempt |-> f.attempt, kind |-> resp.kind]]
             IN  IF ShouldBackoff(f.attempt)
                 THEN [h EXCEPT !.pc = "backoff"]
                 ELSE [h EXCEPT !.pc = "raised"]

\* time.sleep(2 ** attempt), then the next iteration; a for loop that runs out
\* falls off the end of the function, which returns None
FetchBackoffStep(f) ==
    [f EXCEPT !.slept = Append(@, Pow2(f.attempt)),
              !.attempt = @ + 1,
              !.pc = IF f.attempt + 1 < MaxAttempts THEN "try" ELSE "returned"]

IsValidInfo(info) ==
    ~(~info.isDict \/ ~(info.hasCode /\ info.code = 0) \/ ~info.hasData)

\* The caller's try/except and validation: which branch a finished fetch takes.
CallerBranch(f) ==
    IF f.pc = "raised" THEN "fetch_error"
    ELSE IF ~IsValidInfo(f.info) THEN "invalid_response"
    ELSE "proceed"

FetchAttempt ==
    /\ fetch.pc = "try"
    /\ \E resp \in Responses : fetch' = FetchAttemptStep(fetch, resp)
    /\ UNCHANGED <<branch, worker, files, queue, delivered, gui>>

FetchBackoff ==
    /\ fetch.pc = "backoff"
    /\ fetch' = FetchBackoffStep(fetch)
    /\ UNCHANGED <<branch, worker, files, queue, delivered, gui>>

\* download_media: url = ...; info = fetch_video_info(url) is entered
FetchCall ==
    /\ fetch.pc = "idle" \/ branch # "none"
    /\ fetch' = [FetchIdle EXCEPT !.pc = "try"]
    /\ branch' = "none"
    /\ UNCHANGED <<worker, files, queue, delivered, gui>>

\* download_media: the except clause, the validation, or the code after it
FetchHandle ==
    /\ fetch.pc \in {"returned", "raised"}
    /\ branch = "none"
    /\ branch' = CallerBranch(fetch)
    /\ UNCHANGED <<fetch, worker, files, queue, delivered, gui>>

----------------------------------------------------------------------------
(* The media server and the file system.                                    *)

\* Largest media resource, in bytes, of a single transfer.
MaxLen == 5
\* Bytes per chunk of response.iter_content (the source asks for 8192; the
\* model counts in units that keep several chunks per resource).
ChunkSize == 2

\* The resource of length n: byte i holds the value i, so a byte range that
\* lands twice in a file shows.
Resource(n) == [i \in 1..n |-> i]

Min(a, b) == IF a < b THEN a ELSE b

NoFile == [exists |-> FALSE, data |-> << >>]
FileOf(bytes) == [exists |-> TRUE, data |-> bytes]

NoLength == [present |-> FALSE, value |-> 0]
Length(n) == [present |-> TRUE, value |-> n]
NoRange == [kind |-> "none", total |-> 0]
RangeTotal(n) == [kind |-> "total", total |-> n]
\* Content-Range: bytes a-b/*
RangeStar == [kind |-> "star", total |-> 0]

FailedResponse ==
    [ok |-> FALSE, status |-> 0, body |-> << >>, cl |-> NoLength, cr |-> NoRange]

\* What the media server can answer to a GET for a resource of n bytes. hdr is
\* the request's Range header: [sent |-> FALSE] or bytes=offset-.
\*  - any request can fail (connection, timeout, an error status caught by
\*    raise_for_status, 416 for a range that starts at or past the end);
\*  - no Range header, or a server that ignores it: 200 with the whole body;
\*  - a range the server honours: 206 with the bytes from the offset on.
\* Content-Length is optional (chunked transfer); a 206 normally carries
\* Content-Range with the total or with * but a lax server may omit it.
ServerAnswers(n, hdr) ==
    {FailedResponse}
      \cup [ok : {TRUE}, status : {200}, body : {Resource(n)},
            cl : {NoLength, Length(n)}, cr : {NoRange}]
      \cup (IF hdr.sent /\ hdr.offset < n
            THEN [ok : {TRUE}, status : {206},
                  body : {SubSeq(Resource(n), hdr.offset + 1, n)},
                  cl : {NoLength, Length(n - hdr.offset)},
                  cr : {NoRange, RangeTotal(n), RangeStar}]
            ELSE {})

----------------------------------------------------------------------------
(* DownloadWorker                                                           *)

NoHeader == [sent |-> FALSE, offset |-> 0]

\* DownloadWorker.__init__ followed by start(): the thread is about to enter run()
NewWorker(conn, item, url, path) ==
    [pc |-> "run", conn |-> conn, item |-> item,
     download_url |-> url, output_filename |-> path, paused |-> FALSE,
     headers |-> NoHeader, mode |-> "wb", existing_size |-> 0,
     total |-> 0, downloaded |-> 0, body |-> << >>, chunk |-> << >>,
     requests |-> 0, status |-> 0, emitted |-> << >>, before |-> NoFile,
     slept |-> FALSE, existed |-> FALSE, response |-> FailedResponse, job |-> 0,
     title |-> << >>, source_url |-> << >>]

\* headers / mode / existing_size from the destination as run() finds it
PrepareStep(wr, file) ==
    IF file.exists
    THEN [wr EXCEPT !.existing_size = Len(file.data),
                    !.headers = [sent |-> TRUE, offset |-> Len(file.data)],
                    !.mode = "ab", !.before = file, !.pc = "request"]
    ELSE [wr EXCEPT !.before = file, !.pc = "request"]

\* total_size from Content-Length and Content-Range; int() of a total of * raises
ParseTotal(resp) ==
    IF ~resp.cl.present THEN [ok |-> TRUE, total |-> 0]
    ELSE IF resp.cr.kind = "none" THEN [ok |-> TRUE, total |-> resp.cl.value]
    ELSE IF resp.cr.kind = "star" THEN [ok |-> FALSE, total |-> 0]
    ELSE [ok |-> TRUE, total |-> resp.cr.total]

\* (mutant) the share still missing
PercentLeft(downloaded, total) == ((total - downloaded) * 100) \div total

\* int((downloaded / total) * 100). The float quotient truncates to the same
\* integer as the exact one for every total below 10, the model's range.
Percent(downloaded, total) == (downloaded * 100) \div total

Emit(wr, kind, val) ==
    [wr EXCEPT !.emitted = Append(@, [kind |-> kind, val |-> val])]

Signal(w, kind, val) == [w |-> w, kind |-> kind, val |-> val]

\* run() returns: the thread ends and the locals of run() are gone
Return(wr) ==
    [wr EXCEPT !.pc = "done", !.headers = NoHeader, !.mode = "wb",
               !.existing_size = 0, !.total = 0, !.downloaded = 0,
               !.body = << >>, !.chunk = << >>]

\* (mutant) after the error signal run() goes on to its last statement
RaiseThenFinish(wr) == [Emit(wr, "error", 0) EXCEPT !.pc = "finish"]

\* (mutant) a failed transfer is started over once
RetryStep(wr) ==
    IF wr.requests < 2
    THEN [wr EXCEPT !.pc = "request"]
    ELSE Return(Emit(wr, "error", 0))

\* except Exception as e: self.error.emit(str(e)); run() returns
RaiseStep(wr) == Return(Emit(wr, "error", 0))

\* (mutant) the destination is always truncated
OpenTruncating(file, mode) == FileOf(<< >>)

\* open(self.output_filename, mode) on the file as it is
OpenFile(file, mode) ==
    IF mode = "wb" THEN FileOf(<< >>)
    ELSE IF file.exists THEN file ELSE FileOf(<< >>)

Max(a, b) == IF a < b THEN b ELSE a

\* f.write(chunk): "ab" writes at the end of the file whatever the position,
\* "wb" at this file object's own position pos (a gap reads as zero bytes)
WriteFile(file, mode, pos, chunk) ==
    IF mode = "ab"
    THEN FileOf(file.data \o chunk)
    ELSE FileOf([i \in 1..Max(Len(file.data), pos + Len(chunk)) |->
                    IF i > pos /\ i <= pos + Len(chunk) THEN chunk[i - pos]
                    ELSE IF i <= Len(file.data) THEN file.data[i]
                    ELSE 0])

\* (mutant) pausing cancels the transfer
PauseCancels(wr) == Return(Emit([wr EXCEPT !.paused = TRUE], "error", 0))

\* DownloadWorker.pause
PauseWorker(wr) == [wr EXCEPT !.paused = TRUE]

\* DownloadWorker.resume
ResumeWorker(wr) == [wr EXCEPT !.paused = FALSE]

\* The threads run as long as the process does: an exception that leaves a
\* slot, or a QThread destroyed while running, may have ended it
ProcessAlive == gui.pc # "aborted"

\* lines 127-133
WorkerPrepare(w) ==
    /\ ProcessAlive
    /\ worker[w].pc = "run"
    /\ worker' = [worker EXCEPT ![w] = PrepareStep(@, files[@.output_filename])]
    /\ UNCHANGED <<fetch, branch, files, queue, delivered, gui>>

\* lines 134-144: the request is answered, the headers are read
WorkerRequest(w) ==
    /\ ProcessAlive
    /\ worker[w].pc = "request"
    /\ \E resp \in ServerAnswers(worker[w].download_url.len, worker[w].headers) :
         LET wr == [worker[w] EXCEPT !.requests = @ + 1, !.status = resp.status,
                                     !.response = resp]
             parsed == ParseTotal(resp)
         IN  IF resp.ok /\ parsed.ok
             THEN /\ worker' = [worker EXCEPT ![w] =
                        [wr EXCEPT !.total = parsed.total,
                                   !.downloaded = wr.existing_size,
                                   !.body = resp.body,
                                   !.pc = "open"]]
                  /\ queue' = queue
             ELSE /\ worker' = [worker EXCEPT ![w] = RaiseStep(wr)]
                  /\ queue' = Append(queue, Signal(w, "error", 0))
    /\ UNCHANGED <<fetch, branch, files, delivered, gui>>

\* line 145: the destination is opened, or open() raises
WorkerOpen(w) ==
    /\ ProcessAlive
    /\ worker[w].pc = "open"
    /\ \/ /\ files' = [files EXCEPT ![worker[w].output_filename] =
                          OpenFile(@, worker[w].mode)]
          /\ worker' = [worker EXCEPT ![w].pc = "read"]
          /\ queue' = queue
       \/ /\ worker' = [worker EXCEPT ![w] = RaiseStep(@)]
          /\ queue' = Append(queue, Signal(w, "error", 0))
          /\ files' = files
    /\ UNCHANGED <<fetch, branch, delivered, gui>>

\* lines 146-147: the next chunk arrives and _paused is tested for the first
\* time (a flag set during the read is the same as a flag set before the
\* test), the stream ends, or the read raises
WorkerRead(w) ==
    /\ ProcessAlive
    /\ worker[w].pc = "read"
    /\ \/ /\ worker[w].body # << >>
          /\ LET n == Min(ChunkSize, Len(worker[w].body))
             IN  worker' = [worker EXCEPT
                     ![w].chunk = SubSeq(worker[w].body, 1, n),
                     ![w].body = SubSeq(worker[w].body, n + 1, Len(worker[w].body)),
                     ![w].slept = @ \/ worker[w].paused,
                     ![w].pc = IF worker[w].paused THEN "sleep" ELSE "write"]
          /\ queue' = queue
       \/ /\ worker[w].body = << >>
          /\ worker' = [worker EXCEPT ![w].pc = "finish"]
          /\ queue' = queue
       \/ /\ worker[w].body # << >>
          /\ worker' = [worker EXCEPT ![w] = RaiseStep(@)]
          /\ queue' = Append(queue, Signal(w, "error", 0))
    /\ UNCHANGED <<fetch, branch, files, delivered, gui>>

\* (mutant) the chunk held during the pause is given up for the next one
WorkerWakeDropping(w) ==
    /\ worker[w].pc = "sleep"
    /\ ~worker[w].paused
    /\ worker' = [worker EXCEPT ![w].pc = "read", ![w].chunk = << >>]
    /\ UNCHANGED <<fetch, branch, files, queue, delivered, gui>>

\* lines 147-148: after a time.sleep(0.2) the test finds _paused clear and the
\* while loop is left (a test that finds it set sleeps again: no change)
WorkerWake(w) ==
    /\ ProcessAlive
    /\ worker[w].pc = "sleep"
    /\ ~worker[w].paused
    /\ worker' = [worker EXCEPT ![w].pc = "write"]
    /\ UNCHANGED <<fetch, branch, files, queue, delivered, gui>>

\* lines 149-154: past the pause loop, the chunk is written and counted, or
\* f.write raises
WorkerWrite(w) ==
    /\ ProcessAlive
    /\ worker[w].pc = "write"
    /\ \/ /\ files' = [files EXCEPT ![worker[w].output_filename] =
                          WriteFile(@, worker[w].mode,
                                    worker[w].downloaded - worker[w].existing_size,
                                    worker[w].chunk)]
          /\ LET wr == [worker[w] EXCEPT !.downloaded = @ + Len(worker[w].chunk),
                                         !.chunk = << >>, !.pc = "read"]
             IN  IF wr.total > 0
                 THEN /\ worker' = [worker EXCEPT ![w] =
                            Emit(wr, "progress", Percent(wr.downloaded, wr.total))]
                      /\ queue' = Append(queue,
                            Signal(w, "progress", Percent(wr.downloaded, wr.total)))
                 ELSE /\ worker' = [worker EXCEPT ![w] = wr]
                      /\ queue' = queue
       \/ /\ worker' = [worker EXCEPT ![w] = RaiseStep(@)]
          /\ queue' = Append(queue, Signal(w, "error", 0))
          /\ files' = files
    /\ UNCHANGED <<fetch, branch, delivered, gui>>

\* line 155: self.finished.emit(self.output_filename, downloaded)
WorkerFinish(w) ==
    /\ ProcessAlive
    /\ worker[w].pc = "finish"
    /\ worker' = [worker EXCEPT ![w] = Return(Emit(@, "finished", @.downloaded))]
    /\ queue' = Append(queue, Signal(w, "finished", worker[w].downloaded))
    /\ UNCHANGED <<fetch, branch, files, delivered, gui>>

----------------------------------------------------------------------------
(* The GUI thread: MainWindow fields and the slots the signals are queued to *)

\* MainWindow after __init__ (QProgressBar: range 0..100, no value yet; the
\* pause button disabled; download_worker 0: the attribute does not exist).
\* History: outcome (what became of each batch item), incs (how often
\* increment_batch_progress ran on its behalf), fetched (the URLs
\* fetch_video_info was called with), asked and reply (the file-exists
\* questions shown and the last answer), batches (the batch jobs started
\* after the first), downloads (the single downloads started after the
\* first). title_label holds the text after "Title: ".
GuiInit ==
    [pc |-> "idle", urls |-> << >>, valid_urls |-> << >>, idx |-> 0,
     batch_total |-> 0, batch_completed |-> 0, batch_progress_bar |-> -1,
     batch_workers |-> << >>, progress_bar |-> -1, history |-> << >>,
     inflight |-> {}, outcome |-> << >>, incs |-> << >>,
     pause_button |-> [enabled |-> FALSE, text |-> "Pause"],
     download_worker |-> 0, asked |-> 0, reply |-> "none", fetched |-> << >>,
     url_input |-> << >>, batches |-> 0, title_label |-> << >>, downloads |-> 0]

\* QProgressBar.setValue: a value outside the bar's range is ignored
SetValue(bar, v) == IF v < 0 \/ v > 100 THEN bar ELSE v

\* increment_batch_progress once batch_completed has been read as `seen':
\* the sum is stored, the percentage computed and shown
StoreCompleted(g, seen) ==
    [g EXCEPT !.batch_completed = seen + 1,
              !.batch_progress_bar = SetValue(@, Percent(seen + 1, g.batch_total))]

\* increment_batch_progress, run without interruption
IncrementBatchProgress(g) == StoreCompleted(g, g.batch_completed)

\* (mutant) slots run on the emitting thread, whatever the GUI thread does
SlotMayStartAnytime(g) == g.pc # "aborted"

\* The signals of a worker are queued to the GUI thread (the worker object
\* and the proxies of its slots live there; run() emits from its own thread):
\* the event loop runs a slot only between handlers, one slot at a time.
SlotMayStart(g) == g.pc = "idle" /\ g.inflight = {}

\* The signal the event loop hands to its slot next
Pending(kind, conn) ==
    /\ SlotMayStart(gui)
    /\ queue # << >>
    /\ Head(queue).kind = kind
    /\ worker[Head(queue).w].conn = conn

\* lambda p: self.progress_bar.setValue(p)
SlotProgress ==
    /\ Pending("progress", "single")
    /\ gui' = [gui EXCEPT !.progress_bar = SetValue(@, Head(queue).val)]
    /\ delivered' = [delivered EXCEPT ![Head(queue).w] = Append(@, Head(queue).val)]
    /\ queue' = Tail(queue)
    /\ UNCHANGED <<fetch, branch, worker, files>>

\* on_download_finished: the history row (title and URL as the widgets show
\* them now, path and size from the signal)
OnDownloadFinished ==
    /\ Pending("finished", "single")
    /\ gui' = [gui EXCEPT !.history = Append(@,
                  [title |-> gui.title_label, url |-> gui.url_input,
                   filepath |-> worker[Head(queue).w].output_filename,
                   filesize |-> Head(queue).val])]
    /\ queue' = Tail(queue)
    /\ UNCHANGED <<fetch, branch, worker, files, delivered>>

\* lambda err: self.log("Download error: " + err)
SlotError ==
    /\ Pending("error", "single")
    /\ queue' = Tail(queue)
    /\ UNCHANGED <<fetch, branch, worker, files, delivered, gui>>

\* toggle_pause: the click on the pause button, handled by the event loop
TogglePause ==
    /\ SlotMayStart(gui)
    /\ gui.pause_button.enabled
    /\ gui.download_worker # 0
    /\ IF gui.pause_button.text = "Pause"
       THEN /\ worker' = [worker EXCEPT ![gui.download_worker] = PauseWorker(@)]
            /\ gui' = [gui EXCEPT !.pause_button.text = "Resume"]
       ELSE /\ worker' = [worker EXCEPT ![gui.download_worker] = ResumeWorker(@)]
            /\ gui' = [gui EXCEPT !.pause_button.text = "Pause"]
    /\ UNCHANGED <<fetch, branch, files, queue, delivered>>

----------------------------------------------------------------------------
(* Helper functions and the batch loop                                      *)

\* Lines of the URLs file of a batch.
MaxUrls == 2

\* A URL is the sequence of the pieces the pattern of is_valid_tiktok_link
\* tells apart: (https?://)?(www\.)?(tiktok\.com|vm\.tiktok\.com|vt\.tiktok\.com)/
Schemes == {"http://", "https://"}
Hosts == {"tiktok.com", "vm.tiktok.com", "vt.tiktok.com"}

DropIf(url, pieces) ==
    IF url # << >> /\ Head(url) \in pieces THEN Tail(url) ELSE url

\* re.match anchors at the start of the string
IsValidTiktokLink(url) ==
    LET rest == DropIf(DropIf(url, Schemes), {"www."})
    IN  Len(rest) >= 2 /\ rest[1] \in Hosts /\ rest[2] = "/"

BatchUrls ==
    {<<"https://", "www.", "tiktok.com", "/", "@u/video/1">>,
     <<"https://", "example.com", "/", "tiktok.com", "/">>}

\* (mutant) every line of the file is taken
AllUrls(urls) == urls

\* valid_urls = [url for url in urls if is_valid_tiktok_link(url)]
ValidUrls(urls) == SelectSeq(urls, IsValidTiktokLink)

UrlLists == UNION {[1..n -> BatchUrls] : n \in 0..MaxUrls}

ForbiddenChars == {"\\", "/", "*", "?", ":", "\"", "<", ">", "|"}

RECURSIVE StripLeft(_)
StripLeft(chars) ==
    IF chars # << >> /\ Head(chars) = " " THEN StripLeft(Tail(chars)) ELSE chars

RECURSIVE StripRight(_)
StripRight(chars) ==
    IF chars # << >> /\ chars[Len(chars)] = " "
    THEN StripRight(SubSeq(chars, 1, Len(chars) - 1))
    ELSE chars

\* re.sub(r'[\\/*?:"<>|]', "", filename).strip()
SanitizeFilename(chars) ==
    StripRight(StripLeft(SelectSeq(chars, LAMBDA c : c \notin ForbiddenChars)))

\* f"untitled_{idx}"
Untitled(idx) == <<"untitled_", ToString(idx)>>

\* os.path.join(output_dir, sanitized_title + file_ext), within one directory
\* and for the one extension of the selected download type
OutputFilename(chars) == Append(SanitizeFilename(chars), ".mp4")

BatchPaths ==
    {OutputFilename(<<"a">>)} \cup {OutputFilename(Untitled(i)) : i \in 1..MaxUrls}

\* (mutant) the destination is never found
ExistsNever(file) == FALSE

\* os.path.exists(output_filename)
DestinationExists(file) == file.exists

\* (mutant) only a missing key counts as unavailable
AvailableIfPresent(url) == url.kind # "absent"

\* `if not download_url' is false: the key is there and the URL is not empty
Available(url) == url.kind = "url"

\* (mutant) the loop calls fetch_video_info for the same URL again
NextItemAgain(g) ==
    IF g.idx < g.batch_total
    THEN [g EXCEPT !.fetched = Append(@, g.valid_urls[g.idx])]
    ELSE [g EXCEPT !.pc = "idle"]

\* (mutant) a skipped item is logged but not counted
SkipUncounted(g, i, why) == [g EXCEPT !.outcome[i] = why]

\* batch_log(...); increment_batch_progress(); continue
SkipItem(g, i, why) ==
    [IncrementBatchProgress(g) EXCEPT !.outcome[i] = why, !.incs[i] = @ + 1]

\* the for loop moves to the next URL and calls fetch_video_info, or ends
NextItem(g) ==
    IF g.idx < g.batch_total
    THEN [g EXCEPT !.idx = @ + 1, !.fetched = Append(@, g.valid_urls[g.idx + 1])]
    ELSE [g EXCEPT !.pc = "idle"]

FetchFor(g) == IF g.pc = "loop" THEN [FetchIdle EXCEPT !.pc = "try"] ELSE FetchIdle

\* lines 690-720: the click on "Start Batch Download" up to the first fetch.
\* Line 716 drops the only references to the workers of an earlier job: when
\* one of their threads is still running, Qt ends the process unless
\* something else keeps the object alive
StartBatchDownload ==
    /\ gui.pc = "ready"
    /\ LET valid == ValidUrls(gui.urls)
       IN  IF valid = << >>
           THEN /\ gui' = [gui EXCEPT !.pc = "idle"]
                /\ fetch' = fetch
           ELSE \/ /\ \E k \in 1..Len(gui.batch_workers) :
                          worker[gui.batch_workers[k]].pc # "done"
                   /\ gui' = [gui EXCEPT
                          !.pc = "aborted", !.valid_urls = valid,
                          !.batch_total = Len(valid), !.batch_completed = 0,
                          !.batch_progress_bar = SetValue(@, 0),
                          !.batch_workers = << >>]
                   /\ fetch' = fetch
                \/ /\ gui' = [gui EXCEPT
                          !.pc = "loop", !.valid_urls = valid, !.idx = 1,
                          !.batch_total = Len(valid), !.batch_completed = 0,
                          !.batch_progress_bar = SetValue(@, 0),
                          !.batch_workers = << >>,
                          !.fetched = <<valid[1]>>,
                          !.outcome = [i \in 1..Len(valid) |-> "pending"],
                          !.incs = [i \in 1..Len(valid) |-> 0]]
                   /\ fetch' = [FetchIdle EXCEPT !.pc = "try"]
    /\ UNCHANGED <<branch, worker, files, queue, delivered>>

\* lines 721-728: the fetch raised, or its payload fails validation
BatchSkipFetch ==
    /\ gui.pc = "loop"
    /\ fetch.pc \in {"returned", "raised"}
    /\ CallerBranch(fetch) # "proceed"
    /\ branch' = CallerBranch(fetch)
    /\ LET g == NextItem(SkipItem(gui, gui.idx, CallerBranch(fetch)))
       IN  gui' = g /\ fetch' = FetchFor(g)
    /\ UNCHANGED <<worker, files, queue, delivered>>

\* lines 729-731: data.get on something that is no mapping, or re.sub on a
\* title that is no string, raises out of the slot: PyQt either aborts the
\* process or prints the traceback and returns to the event loop
BatchRaise ==
    /\ gui.pc = "loop"
    /\ fetch.pc = "returned"
    /\ CallerBranch(fetch) = "proceed"
    /\ ~fetch.info.data.isMap \/ fetch.info.data.title.kind = "null"
    /\ branch' = "proceed"
    /\ \E pc \in {"aborted", "idle"} :
         gui' = [gui EXCEPT !.pc = pc, !.outcome[gui.idx] = "raised"]
    /\ fetch' = FetchIdle
    /\ UNCHANGED <<worker, files, queue, delivered>>

\* lines 729-748: the variant URL, the destination, the skip or the start
BatchItem ==
    /\ gui.pc = "loop"
    /\ fetch.pc = "returned"
    /\ CallerBranch(fetch) = "proceed"
    /\ fetch.info.data.isMap /\ fetch.info.data.title.kind # "null"
    /\ branch' = "proceed"
    /\ LET data == fetch.info.data
           title == IF data.title.kind = "absent" THEN Untitled(gui.idx)
                    ELSE data.title.chars
           output_filename == OutputFilename(title)
       IN  \/ /\ ~Available(data.url)
              /\ LET g == NextItem(SkipItem(gui, gui.idx, "unavailable"))
                 IN  gui' = g /\ fetch' = FetchFor(g)
              /\ UNCHANGED <<worker, delivered>>
           \/ /\ Available(data.url)
              /\ DestinationExists(files[output_filename])
              /\ LET g == NextItem(SkipItem(gui, gui.idx, "exists"))
                 IN  gui' = g /\ fetch' = FetchFor(g)
              /\ UNCHANGED <<worker, delivered>>
           \/ /\ Available(data.url)
              /\ ~DestinationExists(files[output_filename])
              /\ worker' = Append(worker,
                     [NewWorker("batch", gui.idx, data.url, output_filename)
                         EXCEPT !.existed = files[output_filename].exists,
                                !.job = gui.batches])
              /\ delivered' = Append(delivered, << >>)
              /\ LET g == NextItem([gui EXCEPT
                              !.batch_workers = Append(@, Len(worker) + 1),
                              !.outcome[gui.idx] = "started"])
                 IN  gui' = g /\ fetch' = FetchFor(g)
    /\ UNCHANGED <<files, queue>>

\* lambda p, url=video_url: self.batch_log(f"Progress for {url}: {p}%")
SlotBatchProgress ==
    /\ Pending("progress", "batch")
    /\ delivered' = [delivered EXCEPT ![Head(queue).w] = Append(@, Head(queue).val)]
    /\ queue' = Tail(queue)
    /\ UNCHANGED <<fetch, branch, worker, files, gui>>

\* on_batch_item_complete / on_batch_item_error up to the read of
\* self.batch_completed in increment_batch_progress
OnBatchItemComplete ==
    /\ Pending("finished", "batch")
    /\ gui' = [gui EXCEPT !.inflight = @ \cup
                  {[w |-> Head(queue).w, kind |-> "finished", seen |-> gui.batch_completed]}]
    /\ queue' = Tail(queue)
    /\ UNCHANGED <<fetch, branch, worker, files, delivered>>

OnBatchItemError ==
    /\ Pending("error", "batch")
    /\ gui' = [gui EXCEPT !.inflight = @ \cup
                  {[w |-> Head(queue).w, kind |-> "error", seen |-> gui.batch_completed]}]
    /\ queue' = Tail(queue)
    /\ UNCHANGED <<fetch, branch, worker, files, delivered>>

\* increment_batch_progress from the store of self.batch_completed on
IncrementStore ==
    /\ \E s \in gui.inflight :
         IF worker[s.w].job = gui.batches
         THEN gui' = [StoreCompleted(gui, s.seen) EXCEPT
                        !.inflight = @ \ {s},
                        !.incs[worker[s.w].item] = @ + 1,
                        !.outcome[worker[s.w].item] =
                            IF s.kind = "finished" THEN "success" ELSE "transfer_error"]
         ELSE gui' = [StoreCompleted(gui, s.seen) EXCEPT !.inflight = @ \ {s}]
    /\ UNCHANGED <<fetch, branch, worker, files, queue, delivered>>

----------------------------------------------------------------------------
(* download_media: the single download                                      *)

\* data.get("title", "untitled")
SingleUntitled == <<"untitled">>

\* Answers to the file-exists question (Yes | No buttons)
Replies == {"yes", "no"}

\* (mutant) the answer is not looked at
OverwritesAnyway(reply) == TRUE

\* `if reply != QMessageBox.Yes: ... return' is not taken
Overwrites(reply) == reply = "yes"

\* lines 617-623: the click on "Download" up to the call of fetch_video_info
DownloadMedia ==
    /\ gui.pc = "single_ready"
    /\ IF IsValidTiktokLink(gui.url_input)
       THEN /\ gui' = [gui EXCEPT !.pc = "fetching", !.fetched = <<gui.url_input>>]
            /\ fetch' = [FetchIdle EXCEPT !.pc = "try"]
       ELSE /\ gui' = [gui EXCEPT !.pc = "idle"]
            /\ fetch' = fetch
    /\ UNCHANGED <<branch, worker, files, queue, delivered>>

\* lines 624-629: the fetch raised, or its payload fails validation
DownloadMediaReject ==
    /\ gui.pc = "fetching"
    /\ fetch.pc \in {"returned", "raised"}
    /\ CallerBranch(fetch) # "proceed"
    /\ branch' = CallerBranch(fetch)
    /\ gui' = [gui EXCEPT !.pc = "idle"]
    /\ UNCHANGED <<fetch, worker, files, queue, delivered>>

\* lines 630-632: data.get on something that is no mapping, or re.sub on a
\* title that is no string, raises out of the slot
DownloadMediaRaise ==
    /\ gui.pc = "fetching"
    /\ fetch.pc = "returned"
    /\ CallerBranch(fetch) = "proceed"
    /\ ~fetch.info.data.isMap \/ fetch.info.data.title.kind = "null"
    /\ branch' = "raised"
    /\ \E pc \in {"aborted", "idle"} : gui' = [gui EXCEPT !.pc = pc]
    /\ fetch' = FetchIdle
    /\ UNCHANGED <<worker, files, queue, delivered>>

\* lines 630-669: the variant URL, the destination, the file-exists question,
\* the start of the worker; the handler returns and info is gone. Line 664
\* drops the only reference to the previous worker: when its thread is still
\* running, Qt ends the process ("QThread: Destroyed while thread is still
\* running") unless something else keeps the object alive, and then the
\* thread runs on without a handle
DownloadMediaStart ==
    /\ gui.pc = "fetching"
    /\ fetch.pc = "returned"
    /\ CallerBranch(fetch) = "proceed"
    /\ fetch.info.data.isMap /\ fetch.info.data.title.kind # "null"
    /\ LET data == fetch.info.data
           title == IF data.title.kind = "absent" THEN SingleUntitled
                    ELSE data.title.chars
           output_filename == OutputFilename(title)
           exists == DestinationExists(files[output_filename])
           replaced ==
               gui.download_worker # 0 /\ worker[gui.download_worker].pc # "done"
           start(g) ==
             \/ /\ replaced
                /\ gui' = [g EXCEPT !.pc = "aborted"]
                /\ branch' = "aborted"
                /\ UNCHANGED <<worker, delivered>>
             \/ /\ worker' = Append(worker,
                       [NewWorker("single", 0, data.url, output_filename)
                           EXCEPT !.existed = files[output_filename].exists,
                                  !.title = title,
                                  !.source_url = gui.url_input])
                /\ delivered' = Append(delivered, << >>)
                /\ gui' = [g EXCEPT !.pc = "idle",
                                    !.download_worker = Len(worker) + 1,
                                    !.pause_button.enabled = TRUE]
                /\ branch' = "started"
       IN  \/ /\ ~Available(data.url)
              /\ branch' = "unavailable"
              /\ gui' = [gui EXCEPT !.pc = "idle"]
              /\ UNCHANGED <<worker, delivered>>
           \/ /\ Available(data.url)
              /\ ~exists
              /\ start(gui)
           \/ /\ Available(data.url)
              /\ exists
              /\ \E reply \in Replies :
                   LET g == [gui EXCEPT !.asked = @ + 1, !.reply = reply]
                   IN  IF Overwrites(reply)
                       THEN start(g)
                       ELSE /\ branch' = "declined"
                            /\ gui' = [g EXCEPT !.pc = "idle"]
                            /\ UNCHANGED <<worker, delivered>>
    /\ fetch' = FetchIdle
    /\ UNCHANGED <<files, queue>>

\* on_info_fetched: the slot of the "Fetch Info" worker's finished signal,
\* run by the event loop with whatever info that worker's fetch returned
OnInfoFetched ==
    /\ SlotMayStart(gui)
    /\ gui.url_input # << >>
    /\ \E info \in Payloads :
         IF ~IsValidInfo(info)
         THEN gui' = gui
         ELSE IF ~info.data.isMap \/ info.data.title.kind = "null"
         THEN \E pc \in {"aborted", "idle"} : gui' = [gui EXCEPT !.pc = pc]
         ELSE gui' = [gui EXCEPT !.title_label =
                         IF info.data.title.kind = "absent" THEN SingleUntitled
                         ELSE info.data.title.chars]
    /\ UNCHANGED <<fetch, branch, worker, files, queue, delivered>>

\* The user types another URL into the input field
EditUrl ==
    /\ SlotMayStart(gui)
    /\ gui.url_input # << >>
    /\ \E u \in BatchUrls \ {gui.url_input} : gui' = [gui EXCEPT !.url_input = u]
    /\ UNCHANGED <<fetch, branch, worker, files, queue, delivered>>

\* Single downloads started after the first one.
MaxRedownload == 1

\* The user clicks "Download" again: the click is handled once the GUI
\* thread is back in its event loop, whatever the earlier worker is doing
DownloadClick ==
    /\ SlotMayStart(gui)
    /\ gui.url_input # << >>
    /\ gui.downloads < MaxRedownload
    /\ gui' = [gui EXCEPT !.pc = "single_ready", !.downloads = @ + 1]
    /\ UNCHANGED <<fetch, branch, worker, files, queue, delivered>>

----------------------------------------------------------------------------
InitFetch ==
    /\ fetch = FetchIdle
    /\ branch = "none"
    /\ worker = << >>
    /\ files = << >>
    /\ queue = << >>
    /\ delivered = << >>
    /\ gui = GuiInit

NextFetch == FetchCall \/ FetchAttempt \/ FetchBackoff \/ FetchHandle

SpecFetch == InitFetch /\ [][NextFetch]_vars

\* One DownloadWorker, started as download_media starts it, for a resource of
\* any length against a destination that is missing, holds the first bytes
\* of the resource (none, some or all), or holds other content.
DestinationStates(n) ==
    {NoFile} \cup {FileOf(SubSeq(Resource(n), 1, k)) : k \in 0..n}
             \cup {FileOf(<<0>>)}

TransferPath == OutputFilename(<<"a">>)

InitTransfer ==
    /\ fetch = FetchIdle
    /\ branch = "none"
    /\ \E n \in 0..MaxLen :
         /\ worker = [w \in {1} |-> NewWorker("single", 0, MediaUrl(n), TransferPath)]
         /\ files \in [{TransferPath} -> DestinationStates(n)]
    /\ queue = << >>
    /\ delivered = [w \in {1} |-> << >>]
    /\ gui = [GuiInit EXCEPT !.pause_button.enabled = TRUE, !.download_worker = 1]

NextTransfer ==
    \/ \E w \in DOMAIN worker : WorkerPrepare(w)
    \/ \E w \in DOMAIN worker : WorkerRequest(w)
    \/ \E w \in DOMAIN worker : WorkerOpen(w)
    \/ \E w \in DOMAIN worker : WorkerRead(w)
    \/ \E w \in DOMAIN worker : WorkerWake(w)
    \/ \E w \in DOMAIN worker : WorkerWrite(w)
    \/ \E w \in DOMAIN worker : WorkerFinish(w)
    \/ SlotProgress
    \/ OnDownloadFinished
    \/ SlotError
    \/ TogglePause

SpecTransfer == InitTransfer /\ [][NextTransfer]_vars

\* The worker thread is scheduled: a step of run() that stays possible is
\* taken. The pause loop tests the flag every 200 ms, so a flag that is clear
\* again and again is found clear.
SpecTransferFair ==
    /\ SpecTransfer
    /\ WF_vars(\E w \in DOMAIN worker : WorkerPrepare(w))
    /\ WF_vars(\E w \in DOMAIN worker : WorkerRequest(w))
    /\ WF_vars(\E w \in DOMAIN worker : WorkerOpen(w))
    /\ WF_vars(\E w \in DOMAIN worker : WorkerRead(w))
    /\ SF_vars(\E w \in DOMAIN worker : WorkerWake(w))
    /\ WF_vars(\E w \in DOMAIN worker : WorkerWrite(w))
    /\ WF_vars(\E w \in DOMAIN worker : WorkerFinish(w))

\* One batch job: the URLs file holds up to MaxUrls lines, the output
\* directory may already hold a file under the name of title "a". The workers
\* of a batch are never paused: toggle_pause reaches self.download_worker,
\* which only download_media sets.
Init ==
    /\ fetch = FetchIdle
    /\ branch = "none"
    /\ worker = << >>
    /\ \E f \in {NoFile, FileOf(<<0>>)} :
         files = [p \in BatchPaths |-> IF p = OutputFilename(<<"a">>) THEN f ELSE NoFile]
    /\ queue = << >>
    /\ delivered = << >>
    /\ \E u \in UrlLists : gui = [GuiInit EXCEPT !.pc = "ready", !.urls = u]

Next ==
    \/ StartBatchDownload
    \/ FetchAttempt
    \/ FetchBackoff
    \/ BatchSkipFetch
    \/ BatchRaise
    \/ BatchItem
    \/ \E w \in DOMAIN worker : WorkerPrepare(w)
    \/ \E w \in DOMAIN worker : WorkerRequest(w)
    \/ \E w \in DOMAIN worker : WorkerOpen(w)
    \/ \E w \in DOMAIN worker : WorkerRead(w)
    \/ \E w \in DOMAIN worker : WorkerWrite(w)
    \/ \E w \in DOMAIN worker : WorkerFinish(w)
    \/ SlotBatchProgress
    \/ OnBatchItemComplete
    \/ OnBatchItemError
    \/ IncrementStore

Spec == Init /\ [][Next]_vars

\* Batch jobs started after the first one.
MaxRebatch == 1
\* Lines of the URLs file of each of these jobs.
RebatchUrls == 1

\* The user picks a URLs file and clicks "Start Batch Download" again: the
\* click is handled once the GUI thread is back in its event loop, whatever
\* the workers of the earlier job are doing
BatchClick ==
    /\ SlotMayStart(gui)
    /\ gui.batches < MaxRebatch
    /\ \E u \in UNION {[1..n -> BatchUrls] : n \in 0..RebatchUrls} :
         gui' = [gui EXCEPT !.pc = "ready", !.urls = u, !.batches = @ + 1]
    /\ UNCHANGED <<fetch, branch, worker, files, queue, delivered>>

\* A batch job of up to RebatchUrls lines, then further jobs.
InitRebatch ==
    /\ fetch = FetchIdle
    /\ branch = "none"
    /\ worker = << >>
    /\ files = [p \in BatchPaths |-> NoFile]
    /\ queue = << >>
    /\ delivered = << >>
    /\ \E u \in UNION {[1..n -> BatchUrls] : n \in 0..RebatchUrls} :
         gui = [GuiInit EXCEPT !.pc = "ready", !.urls = u]

NextRebatch == Next \/ BatchClick

SpecRebatch == InitRebatch /\ [][NextRebatch]_vars

SinglePaths == {OutputFilename(<<"a">>), OutputFilename(SingleUntitled)}

\* One single download: any URL in the input field, the output directory may
\* already hold a file under the name of title "a".
InitSingle ==
    /\ fetch = FetchIdle
    /\ branch = "none"
    /\ worker = << >>
    /\ \E f \in {NoFile, FileOf(<<0>>)} :
         files = [p \in SinglePaths |-> IF p = OutputFilename(<<"a">>) THEN f ELSE NoFile]
    /\ queue = << >>
    /\ delivered = << >>
    /\ \E u \in BatchUrls : gui = [GuiInit EXCEPT !.pc = "single_ready", !.url_input = u]

NextSingle ==
    \/ DownloadMedia
    \/ DownloadMediaReject
    \/ DownloadMediaRaise
    \/ DownloadMediaStart
    \/ \E w \in DOMAIN worker : WorkerWake(w)
    \/ SlotProgress
    \/ OnDownloadFinished
    \/ SlotError
    \/ TogglePause

\* Every step of a single download and of its worker.
NextDownload ==
    \/ NextSingle
    \/ FetchAttempt
    \/ FetchBackoff
    \/ \E w \in DOMAIN worker : WorkerPrepare(w)
    \/ \E w \in DOMAIN worker : WorkerRequest(w)
    \/ \E w \in DOMAIN worker : WorkerOpen(w)
    \/ \E w \in DOMAIN worker : WorkerRead(w)
    \/ \E w \in DOMAIN worker : WorkerWrite(w)
    \/ \E w \in DOMAIN worker : WorkerFinish(w)

\* A session of single downloads: a download is started while an earlier
\* one may still run.
NextSession == NextDownload \/ DownloadClick

SpecSession == InitSingle /\ [][NextSession]_vars

\* A single download during which the input field is edited and info is
\* fetched.
NextEdit == NextDownload \/ OnInfoFetched \/ EditUrl

SpecEdit == InitSingle /\ [][NextEdit]_vars

\* The application in either mode: one batch job, or one single download.
InitApp == Init \/ InitSingle

NextApp == Next \/ NextSingle

SpecApp == InitApp /\ [][NextApp]_vars

----------------------------------------------------------------------------
(* Properties of fetch_video_info (SpecFetch)                               *)

Failed(resp) == resp.kind \in FailureKinds

FailsValidation(p) == ~p.isDict \/ ~p.hasCode \/ p.code # 0 \/ ~p.hasData

\* C4: fetch_video_info issues at most 3 requests; it returns the payload of
\* the first attempt that succeeds and issues no request after it; it raises
\* only after exactly 3 failed attempts, and raises the 3rd attempt's error;
\* it sleeps 2^attempt seconds after the 1st and 2nd failure (1 s, 2 s) and
\* not after the 3rd.
C4_FetchRetryPolicy ==
    /\ fetch.requests <= 3
    /\ fetch.requests = Len(fetch.log)
    /\ \A i \in 1..(Len(fetch.log) - 1) : Failed(fetch.log[i])
    /\ Len(fetch.slept) <= 2
    /\ \A i \in 1..Len(fetch.slept) : fetch.slept[i] = 2 ^ (i - 1)
    /\ fetch.pc = "returned" =>
         /\ ~Failed(fetch.log[Len(fetch.log)])
         /\ fetch.info = fetch.log[Len(fetch.log)].payload
         /\ Len(fetch.slept) = fetch.requests - 1
    /\ fetch.pc = "raised" =>
         /\ fetch.requests = 3
         /\ Failed(fetch.log[3])
         /\ fetch.e = [attempt |-> 2, kind |-> fetch.log[3].kind]
         /\ fetch.slept = <<1, 2>>
    /\ fetch.pc = "backoff" => Failed(fetch.log[Len(fetch.log)])

\* C4 witness: three attempts failed, two backoffs were slept, the error is raised
C4_Witness ==
    /\ fetch.pc = "raised"
    /\ fetch.requests = 3
    /\ fetch.slept = <<1, 2>>

\* C5 as stated: a fetch that ends with a payload failing validation has issued
\* exactly one metadata request, and its caller takes the invalid-response
\* branch.
C5_Original ==
    (fetch.pc = "returned" /\ FailsValidation(fetch.info)) =>
        /\ fetch.requests = 1
        /\ branch \in {"none", "invalid_response"}

\* C5 (amended): a payload that was received and fails validation ends the
\* fetch: it is the last response of the call (no request is issued after
\* it, so the requests are one per earlier failed attempt plus this one), it
\* is what the call returns, and the caller takes the invalid-response branch,
\* never the fetch-error branch.
C5_InvalidNotRetried ==
    \A i \in 1..Len(fetch.log) :
        (fetch.log[i].kind = "json" /\ FailsValidation(fetch.log[i].payload)) =>
            /\ i = Len(fetch.log)
            /\ fetch.requests = i
            /\ \A j \in 1..(i - 1) : Failed(fetch.log[j])
            /\ fetch.pc = "returned"
            /\ fetch.info = fetch.log[i].payload
            /\ branch \in {"none", "invalid_response"}

\* C5 witness: an invalid payload answered the first request and the caller
\* has taken the invalid-response branch
C5_Witness ==
    /\ fetch.pc = "returned"
    /\ FailsValidation(fetch.info)
    /\ fetch.requests = 1
    /\ branch = "invalid_response"

----------------------------------------------------------------------------
(* Properties of DownloadWorker.run (SpecTransfer)                          *)

IsTerminal(sig) == sig.kind \in {"finished", "error"}

Terminals(w) ==
    Cardinality({i \in 1..Len(worker[w].emitted) : IsTerminal(worker[w].emitted[i])})

Finished(w) ==
    /\ worker[w].pc = "done"
    /\ worker[w].emitted # << >>
    /\ worker[w].emitted[Len(worker[w].emitted)].kind = "finished"

BytesWritten(w) == worker[w].emitted[Len(worker[w].emitted)].val

Destination(w) == files[worker[w].output_filename]

IsPrefix(s, t) == Len(s) <= Len(t) /\ SubSeq(t, 1, Len(s)) = s

ProgressOf(w) == SelectSeq(worker[w].emitted, LAMBDA sig : sig.kind = "progress")

\* C6: a run issues one media request and never a second one, emits one
\* terminal signal (finished or error, not both), and emits nothing after it.
C6_OneRequestOneTerminal ==
    \A w \in DOMAIN worker :
        /\ worker[w].requests <= 1
        /\ Terminals(w) <= 1
        /\ \A i \in 1..Len(worker[w].emitted) :
              IsTerminal(worker[w].emitted[i]) =>
                  i = Len(worker[w].emitted) /\ worker[w].pc = "done"
        /\ worker[w].pc = "done" => worker[w].requests = 1 /\ Terminals(w) = 1

\* C6 witness: a run that emitted progress and then its terminal signal
C6_Witness ==
    \E w \in DOMAIN worker :
        /\ worker[w].pc = "done"
        /\ Len(worker[w].emitted) >= 2
        /\ worker[w].requests = 1

\* C7 as stated: a run that resumes on the first existingSize bytes of the
\* resource and ends in success leaves exactly the resource in the file.
C7_ResumeYieldsResource ==
    \A w \in DOMAIN worker :
        (Finished(w) /\ worker[w].before.exists
           /\ IsPrefix(worker[w].before.data, Resource(worker[w].download_url.len)))
        => Destination(w).data = Resource(worker[w].download_url.len)

\* C8: from the moment run() has looked at an existing destination, the bytes
\* the file held then stay its first bytes; and when a 206 answered the range
\* request, the bytesWritten reported is existingSize plus the bytes received,
\* which is the resource's length (5 for a 2-byte file of a 5-byte resource).
C8_AppendOnly ==
    \A w \in DOMAIN worker :
        /\ worker[w].before.exists =>
              /\ Destination(w).exists
              /\ IsPrefix(worker[w].before.data, Destination(w).data)
              /\ worker[w].pc # "done" => worker[w].existing_size = Len(worker[w].before.data)
        /\ (Finished(w) /\ worker[w].before.exists /\ worker[w].status = 206) =>
              /\ BytesWritten(w) =
                    Len(worker[w].before.data)
                      + (worker[w].download_url.len - Len(worker[w].before.data))
              /\ Len(Destination(w).data) = BytesWritten(w)

\* C8 witness: a 2-byte file, a 5-byte resource, a 206 answer, 5 bytes reported
C8_Witness ==
    \E w \in DOMAIN worker :
        /\ Finished(w)
        /\ worker[w].status = 206
        /\ worker[w].before = FileOf(<<1, 2>>)
        /\ worker[w].download_url.len = 5
        /\ BytesWritten(w) = 5
        /\ Destination(w).data = <<1, 2, 3, 4, 5>>

\* C9 as stated: every progress value emitted lies in 0..100.
C9_PercentInRange ==
    \A w \in DOMAIN worker :
        \A i \in 1..Len(worker[w].emitted) :
            worker[w].emitted[i].kind = "progress" =>
                worker[w].emitted[i].val \in 0..100

\* C10: the progress values one transfer emits never decrease, and the GUI
\* slot receives them in the order of emission.
C10_ProgressMonotone ==
    \A w \in DOMAIN worker :
        /\ \A i \in 1..Len(ProgressOf(w)) : \A j \in i..Len(ProgressOf(w)) :
              ProgressOf(w)[i].val <= ProgressOf(w)[j].val
        /\ Len(delivered[w]) <= Len(ProgressOf(w))
        /\ \A i \in 1..Len(delivered[w]) : delivered[w][i] = ProgressOf(w)[i].val

\* C10 witness: two different progress values were emitted and delivered
C10_Witness ==
    \E w \in DOMAIN worker :
        /\ Len(delivered[w]) >= 2
        /\ delivered[w][1] < delivered[w][2]

\* Positions of run() inside the chunk loop
InChunkLoop(wr) == wr.pc \in {"read", "sleep", "write"}

\* C11 as stated: while _paused is set (from a step after which it is set to
\* a step after which it is still set) a run that is in its chunk loop
\* appends nothing to the destination, does not change downloaded and emits
\* no progress.
C11_PausedConsumesNothing ==
    [][\A w \in DOMAIN worker :
          (worker[w].paused /\ worker'[w].paused
             /\ InChunkLoop(worker[w]) /\ InChunkLoop(worker'[w])) =>
              /\ files'[worker[w].output_filename] = files[worker[w].output_filename]
              /\ worker'[w].downloaded = worker[w].downloaded
              /\ ProgressOf(w)' = ProgressOf(w)]_vars

\* C21 as stated: once the headers are read, a Content-Range total in the
\* response is the total whether or not Content-Length is there, and the total
\* is 0 only when Content-Range gives none and Content-Length is missing (or 0).
C21_RangeTotalAuthoritative ==
    \A w \in DOMAIN worker :
        worker[w].pc \in {"open", "read", "sleep", "write", "finish"} =>
            /\ worker[w].response.cr.kind = "total" =>
                  worker[w].total = worker[w].response.cr.total
            /\ worker[w].total = 0 =>
                  /\ worker[w].response.cr.kind # "total"
                  /\ ~worker[w].response.cl.present \/ worker[w].response.cl.value = 0

\* The bytes of the response that run() has written: all that were received
\* but the chunk in hand
Written(wr) ==
    SubSeq(wr.response.body, 1, Len(wr.response.body) - Len(wr.body) - Len(wr.chunk))

\* C22: whatever pause() and resume() do in between, the file is what run()
\* found plus the chunks written so far, each once and in the order of the
\* response, the chunk held during a pause is the next one to be written, and
\* a run that ends in success leaves what it found plus the whole response body
\* and reports that many bytes: what the run without any pause leaves.
C22_PauseKeepsContent ==
    \A w \in DOMAIN worker :
        /\ InChunkLoop(worker[w]) =>
              /\ Destination(w).data = worker[w].before.data \o Written(worker[w])
              /\ worker[w].downloaded = worker[w].existing_size + Len(Written(worker[w]))
              /\ worker[w].pc \in {"sleep", "write"} => worker[w].chunk # << >>
              /\ worker[w].body \o << >> =
                    SubSeq(worker[w].response.body,
                           Len(Written(worker[w])) + Len(worker[w].chunk) + 1,
                           Len(worker[w].response.body))
              /\ worker[w].chunk \o << >> =
                    SubSeq(worker[w].response.body,
                           Len(Written(worker[w])) + 1,
                           Len(Written(worker[w])) + Len(worker[w].chunk))
        /\ Finished(w) =>
              /\ Destination(w).data = worker[w].before.data \o worker[w].response.body
              /\ BytesWritten(w) =
                    Len(worker[w].before.data) + Len(worker[w].response.body)

\* C22 witness: a run of several chunks that slept in the pause loop ended in
\* success with the resource in the file
C22_Witness ==
    /\ worker[1].slept
    /\ Finished(1)
    /\ worker[1].download_url.len = MaxLen
    /\ ~worker[1].before.exists
    /\ Destination(1).data = Resource(MaxLen)

----------------------------------------------------------------------------
(* Properties of the batch job (Spec)                                       *)

SkipOutcomes == {"fetch_error", "invalid_response", "unavailable", "exists"}

Items == 1..gui.batch_total

Started(i) ==
    {w \in DOMAIN worker :
        worker[w].conn = "batch" /\ worker[w].job = gui.batches /\ worker[w].item = i}

\* The terminal signal of w has been emitted and its slot has run to its end.
Handled(w) ==
    /\ worker[w].pc = "done"
    /\ \A k \in 1..Len(queue) : queue[k].w = w => ~IsTerminal(queue[k])
    /\ \A s \in gui.inflight : s.w # w

\* Item i was skipped, or its transfer ended and the coordinator was told.
ItemTerminal(i) ==
    \/ gui.outcome[i] \in SkipOutcomes
    \/ \E w \in Started(i) : Handled(w)

RECURSIVE SumSeq(_)
SumSeq(seq) == IF seq = << >> THEN 0 ELSE Head(seq) + SumSeq(Tail(seq))

\* C1: once every item of a batch with at least one valid URL is terminal
\* (skipped for any of the four reasons, or transferred with success or
\* error), batch_completed equals batch_total and the bar shows exactly 100.
C1_BatchReaches100 ==
    (gui.batch_total >= 1 /\ \A i \in Items : ItemTerminal(i)) =>
        /\ gui.batch_completed = gui.batch_total
        /\ gui.batch_progress_bar = 100

\* C1 witness: a batch of two items, one skipped after a failed fetch and one
\* transferred, is complete
C1_Witness ==
    /\ gui.batch_total = 2
    /\ gui.outcome[1] = "fetch_error"
    /\ \E w \in Started(2) : Handled(w) /\ Finished(w)
    /\ gui.batch_completed = 2
    /\ gui.batch_progress_bar = 100

\* C2: batch_completed is incremented once per item and never twice: an item
\* on a skip path has its one increment, an item whose transfer's terminal
\* signal was handled has its one increment, an increment is made only for an
\* item that was skipped or whose transfer emitted its terminal signal, and
\* batch_completed is the number of these increments.
C2_OneIncrementPerItem ==
    gui.pc # "ready" =>
        /\ \A i \in 1..Len(gui.incs) :
              /\ gui.incs[i] <= 1
              /\ ItemTerminal(i) => gui.incs[i] = 1
              /\ gui.incs[i] = 1 =>
                    \/ gui.outcome[i] \in SkipOutcomes
                    \/ \E w \in Started(i) : Terminals(w) = 1
        /\ gui.batch_completed = SumSeq(gui.incs)

\* C2 witness: one item counted on the skip path, one on its transfer's error
C2_Witness ==
    /\ gui.batch_total = 2
    /\ gui.outcome[1] = "exists"
    /\ \E w \in Started(2) : Handled(w) /\ ~Finished(w)
    /\ gui.incs = <<1, 1>>

\* C3: the completion callbacks never overlap: at most one is between its
\* read and its store of batch_completed, the value it read is still the
\* current one, and batch_completed is the number of skipped items plus the
\* number of transfers whose terminal signal was handled.
C3_NoLostIncrement ==
    gui.pc # "ready" =>
        /\ Cardinality(gui.inflight) <= 1
        /\ \A s \in gui.inflight : s.seen = gui.batch_completed
        /\ gui.batch_completed =
              Cardinality({i \in 1..Len(gui.outcome) : gui.outcome[i] \in SkipOutcomes})
                + Cardinality({w \in DOMAIN worker : Handled(w)})

\* C3 witness: two transfers ran at the same time, the second one started
\* finished first, and both are counted
C3_Witness ==
    /\ Len(worker) = 2
    /\ Handled(2)
    /\ worker[1].pc = "done"
    /\ \E k \in 1..Len(queue) : queue[k].w = 1 /\ IsTerminal(queue[k])
    /\ gui.batch_completed = 1

\* The lines of the URLs file that pass the pattern of is_valid_tiktok_link
Passing == {k \in 1..Len(gui.urls) : IsValidTiktokLink(gui.urls[k])}

\* C13: once the batch handler has run, batch_total is the number of URLs
\* that pass the pattern, every URL fetch_video_info was called with passes
\* it, every transfer belongs to an item of the passing URLs, and when no URL
\* passes nothing was fetched, nothing was started, and batch_total,
\* batch_completed and the bar are what they were before the click.
C13_RejectedUrlsDropped ==
    gui.pc # "ready" =>
        /\ \A k \in 1..Len(gui.fetched) : IsValidTiktokLink(gui.fetched[k])
        /\ \A w \in DOMAIN worker :
              /\ worker[w].item \in 1..Len(gui.valid_urls)
              /\ IsValidTiktokLink(gui.valid_urls[worker[w].item])
        /\ Passing # {} => gui.batch_total = Cardinality(Passing)
        /\ Passing = {} =>
              /\ gui.fetched = << >> /\ fetch = FetchIdle /\ worker = << >>
              /\ gui.batch_total = GuiInit.batch_total
              /\ gui.batch_completed = GuiInit.batch_completed
              /\ gui.batch_progress_bar = GuiInit.batch_progress_bar

\* C13 witness: a file of one rejected and one passing URL; the batch of one
\* item has run and its transfer was started
C13_Witness ==
    /\ Len(gui.urls) = 2
    /\ ~IsValidTiktokLink(gui.urls[1])
    /\ gui.batch_total = 1
    /\ Len(gui.fetched) = 1
    /\ gui.pc = "idle"
    /\ Started(1) # {}

----------------------------------------------------------------------------
(* Properties of either mode (SpecApp)                                      *)

SingleMode == gui.url_input # << >>

NoTransferOutcomes == {"fetch_error", "invalid_response", "unavailable"}

\* C14: every transfer was started with a media URL; a batch item whose fetch
\* raised (after 3 attempts), whose response is invalid or whose variant URL is
\* absent or empty has no transfer, and a single download that ended in one
\* of these ways started none. Without a transfer there is no media request.
C14_NoTransferWithoutMedia ==
    /\ \A w \in DOMAIN worker : worker[w].download_url.kind = "url"
    /\ \A i \in 1..Len(gui.outcome) :
          gui.outcome[i] \in NoTransferOutcomes => Started(i) = {}
    /\ (SingleMode /\ branch \in NoTransferOutcomes) => worker = << >>
    /\ (fetch.pc = "raised" /\ SingleMode) => worker = << >> /\ fetch.requests = 3

\* C14 witness: a batch whose first item's fetch failed three times and
\* whose second item has no URL for the variant ended without any transfer
C14_Witness ==
    /\ gui.batch_total = 2
    /\ gui.outcome = <<"fetch_error", "unavailable">>
    /\ gui.pc = "idle"
    /\ worker = << >>

BatchPathA == OutputFilename(<<"a">>)

\* C15: a batch never asks; no transfer of a batch was started for a
\* destination that existed at its check; an item skipped for that reason has
\* no transfer and its one increment; the skip itself changes no file, starts
\* no worker and emits nothing; and a file that was there before the batch
\* is never changed by it.
C15_ExistingSkipped ==
    /\ [](/\ gui.asked = 0
          /\ \A w \in DOMAIN worker : ~worker[w].existed
          /\ \A i \in 1..Len(gui.outcome) :
                gui.outcome[i] = "exists" => Started(i) = {} /\ gui.incs[i] = 1)
    /\ [][\A i \in 1..Len(gui.outcome) :
            (gui.outcome[i] # "exists" /\ gui'.outcome[i] = "exists") =>
                UNCHANGED <<files, worker, queue>>]_vars
    /\ (files[BatchPathA].exists => [](files[BatchPathA] = FileOf(<<0>>)))

\* C15 witness: the first item's destination was there, it is skipped and
\* counted, and the file is what it was
C15_Witness ==
    /\ gui.batch_total >= 1
    /\ gui.outcome[1] = "exists"
    /\ gui.incs[1] = 1
    /\ files[BatchPathA] = FileOf(<<0>>)
    /\ gui.pc = "idle"

\* C16 as stated: the batch handler never ends abnormally, and when it has
\* ended every item was processed (skipped or started).
C16_BatchNeverAborts ==
    /\ gui.pc # "aborted"
    /\ (gui.pc = "idle" /\ gui.batch_total >= 1) =>
          \A i \in Items : gui.outcome[i] \notin {"pending", "raised"}

\* C17 as stated: no two transfers that are running at the same time have the
\* same destination.
C17_ExclusiveDestination ==
    \A w1 \in DOMAIN worker : \A w2 \in DOMAIN worker :
        (w1 # w2 /\ worker[w1].pc # "done" /\ worker[w2].pc # "done") =>
            worker[w1].output_filename # worker[w2].output_filename

HistoryOf(w) ==
    {k \in 1..Len(gui.history) : gui.history[k].filepath = worker[w].output_filename}

\* C18 as stated: a transfer that ended in success and whose signal was
\* handled has exactly one history record, with its path and byte count; a
\* transfer that ended in error has none.
C18_SuccessRecorded ==
    \A w \in DOMAIN worker :
        /\ (Finished(w) /\ Handled(w)) =>
              /\ Cardinality(HistoryOf(w)) = 1
              /\ \A k \in HistoryOf(w) : gui.history[k].filesize = BytesWritten(w)
        /\ (worker[w].pc = "done" /\ ~Finished(w)) => HistoryOf(w) = {}

\* C19: the file-exists question is asked at most once; a single download
\* whose destination existed has a transfer only if the answer was yes; on
\* any other answer there is no transfer (so no media request) and the file is
\* what it was.
C19_OverwriteOnlyOnYes ==
    SingleMode =>
        /\ gui.asked <= 1
        /\ \A w \in DOMAIN worker :
              worker[w].existed => gui.asked = 1 /\ gui.reply = "yes"
        /\ (gui.asked = 1 /\ gui.reply # "yes") =>
              /\ worker = << >>
              /\ branch = "declined"
              /\ files[BatchPathA] = FileOf(<<0>>)

\* C19 witness: the destination existed, the answer was yes, the transfer
\* ran and issued its request
C19_Witness ==
    /\ SingleMode
    /\ gui.asked = 1 /\ gui.reply = "yes"
    /\ Len(worker) = 1
    /\ worker[1].existed
    /\ worker[1].requests = 1

\* C24 as stated: a single download whose destination existed, that was
\* started after the answer yes and ended in success, leaves exactly the
\* remote resource in the file.
C24_OverwriteReplaces ==
    \A w \in DOMAIN worker :
        (worker[w].conn = "single" /\ worker[w].existed /\ gui.reply = "yes"
           /\ Finished(w)) =>
            Destination(w).data = Resource(worker[w].download_url.len)

----------------------------------------------------------------------------
(* Order of the batch loop (Spec)                                           *)

\* C20: fetch_video_info is called for the valid URLs in their order; when
\* it is called for an item, every earlier item was skipped or has its
\* transfer started, and no later item has been touched; transfers are
\* started in item order, whatever the earlier ones are doing.
C20_BatchOrder ==
    gui.pc # "ready" =>
        /\ IsPrefix(gui.fetched, gui.valid_urls)
        /\ \A i \in Items :
              /\ i > Len(gui.fetched) => gui.outcome[i] = "pending" /\ Started(i) = {}
              /\ i < Len(gui.fetched) =>
                    gui.outcome[i] \in SkipOutcomes \/ Started(i) # {}
        /\ \A w1 \in DOMAIN worker : \A w2 \in DOMAIN worker :
              w1 < w2 => worker[w1].item < worker[w2].item

\* C20 witness: the second transfer is started while the first has not
\* even issued its request
C20_Witness ==
    /\ Len(worker) = 2
    /\ worker[1].pc = "run"
    /\ worker[2].pc = "run"
    /\ gui.fetched = gui.valid_urls

----------------------------------------------------------------------------
(* Batch jobs that follow one another (SpecRebatch)                         *)

\* C23 as stated: batch_completed lies in 0..batch_total, the percentage
\* of a batch with items is at most 100, and increment_batch_progress runs
\* only with batch_total >= 1; also when the callbacks of an earlier job's
\* transfers arrive after a new job was started.
C23_CompletedWithinTotal ==
    /\ gui.batch_completed >= 0
    /\ gui.batch_completed <= gui.batch_total
    /\ gui.batch_total >= 1 => Percent(gui.batch_completed, gui.batch_total) <= 100
    /\ gui.inflight # {} => gui.batch_total >= 1

----------------------------------------------------------------------------
(* Single downloads in a session (SpecSession, SpecEdit)                    *)

\* C25 as stated: once there is a download worker, the pause button shows
\* "Resume" exactly when that worker's _paused is set.
C25_ButtonShowsFlag ==
    gui.download_worker # 0 =>
        (gui.pause_button.text = "Resume" <=> worker[gui.download_worker].paused)

\* C26 as stated: a worker that is paused and has not ended is the one
\* toggle_pause reaches (self.download_worker), so it can be resumed.
C26_PausedStaysReachable ==
    \A w \in DOMAIN worker :
        (worker[w].paused /\ worker[w].pc # "done") => w = gui.download_worker

\* C27 as stated: every history record carries the title and the source URL
\* that the transfer it was written for was started with.
C27_HistoryNamesAsset ==
    \A k \in 1..Len(gui.history) :
        \E w \in DOMAIN worker :
            /\ Finished(w)
            /\ worker[w].output_filename = gui.history[k].filepath
            /\ worker[w].title = gui.history[k].title
            /\ worker[w].source_url = gui.history[k].url

====
